---- MODULE Spec2Model ----
(***************************************************************************)
(* Model of the EventBlock component                                       *)
(* (src/src/components/Timeline/EventBlock.tsx).                           *)
(*                                                                         *)
(* The component is a memoised function component.  Its state is the props *)
(* of the last render, the two shared values it reads, the closure the     *)
(* animated-style worklet captured (it is re-captured only when the        *)
(* dependency list [event] changes), the style the worklet last returned,  *)
(* the rendered opacity/disabled flags, and the callbacks the last gesture *)
(* dispatched.  Hours, pixels and milliseconds are integers; opacity is in *)
(* percent.                                                                *)
(***************************************************************************)
EXTENDS Integers, Sequences, FiniteSets, TLC

VARIABLES
    props,                  \* props of the last render (the closures of _onPress/_onLongPress)
    heightByTimeInterval,   \* SharedValue<number>.value
    isPinchActive,          \* SharedValue<boolean>.value
    worklet,                \* values captured by the useAnimatedStyle updater
    eventStyle,             \* style object last returned by the updater
    view,                   \* rendered eventOpacity and TouchableOpacity.disabled
    lastGesture,            \* "none", "press" or "longPress": the last user gesture
    calls,                  \* callbacks dispatched by the last gesture, in order
    error                   \* TRUE iff the last gesture's handler threw

vars == <<props, heightByTimeInterval, isPinchActive, worklet, eventStyle,
          view, lastGesture, calls, error>>

----------------------------------------------------------------------------
(* Bounds of the model *)

MaxDayIndex == 1
MaxZoom == 2

----------------------------------------------------------------------------
(* Optional props (`name?: T`): undefined is <<>>, a value v is <<v>> *)

Undefined == <<>>

Some(v) == <<v>>

\* JavaScript truthiness of an optional number: undefined and 0 are falsy
TruthyNumber(x) == x # Undefined /\ x[1] # 0

\* JavaScript truthiness of an optional string: undefined and "" are falsy
TruthyString(x) == x # Undefined /\ x[1] # ""

Max(a, b) == IF a >= b THEN a ELSE b

----------------------------------------------------------------------------
(* Input domains *)

\* PackedEvent values handed down by the timeline: starting at hour 0,
\* ending exactly at hour 24, ending the day after, and spanning the day on
\* both sides
Events ==
    { [id |-> "e2", startHour |-> 0,  duration |-> 2,  left |-> 25, width |-> 25],
      [id |-> "e1", startHour |-> 10, duration |-> 14, left |-> 0,  width |-> 50],
      [id |-> "e2", startHour |-> 23, duration |-> 3,  left |-> 25, width |-> 25],
      [id |-> "e1", startHour |-> -1, duration |-> 26, left |-> 0,  width |-> 50] }

\* identity of the event object (Object.is); the content is in Events
EventRefs == {0, 1}

DayIndexes == 0 .. MaxDayIndex

ColumnWidths == {50, 80}

\* zoom levels of the timeline, always positive
Heights == { 10 * z : z \in 1 .. MaxZoom }

SelectedEventIds == { Undefined, Some(""), Some("e1") }

Themes == { [minimumEventHeight |-> m] : m \in { Undefined, Some(30) } }

\* the animation duration is set once, when the timeline is configured
AnimatedDurations == { Some(250) }

Callbacks == { Undefined, Some("fn") }

PropsDomain ==
    [ event : Events, eventRef : EventRefs, dayIndex : DayIndexes,
      columnWidth : ColumnWidths, onPressEvent : Callbacks,
      onLongPressEvent : Callbacks, selectedEventId : SelectedEventIds,
      theme : Themes, eventAnimatedDuration : AnimatedDurations ]

----------------------------------------------------------------------------
(* Press handlers *)

\* eventParams of _onLongPress: {...event, top, height, leftByIndex}
LongPressEventParams(p, h) ==
    ( "top" :> p.event.startHour * h
      @@ "height" :> p.event.duration * h
      @@ "leftByIndex" :> p.columnWidth * p.dayIndex )
    @@ p.event

\* mutant: the payload's leftByIndex also carries the event's own left offset
PressEventParamsWithLeft(p, h) ==
    ( "top" :> p.event.startHour * h
      @@ "height" :> p.event.duration * h
      @@ "leftByIndex" :> p.event.left + p.columnWidth * p.dayIndex )
    @@ p.event

\* eventParams of _onPress: {...event, top, height, leftByIndex}
PressEventParams(p, h) ==
    ( "top" :> p.event.startHour * h
      @@ "height" :> p.event.duration * h
      @@ "leftByIndex" :> p.columnWidth * p.dayIndex )
    @@ p.event

\* mutant: callback(eventParams) without the optional chaining
DirectCall(callback, name, eventParams) ==
    IF callback = Undefined
    THEN [calls |-> <<>>, error |-> TRUE]
    ELSE [calls |-> << [callback |-> name, eventParams |-> eventParams] >>,
          error |-> FALSE]

\* callback?.(eventParams): a no-op when the callback is undefined
OptionalCall(callback, name, eventParams) ==
    IF callback = Undefined
    THEN [calls |-> <<>>, error |-> FALSE]
    ELSE [calls |-> << [callback |-> name, eventParams |-> eventParams] >>,
          error |-> FALSE]

\* mutant: the long-press handler hands its payload to onPressEvent
onLongPressCallsOnPress(p, h) ==
    OptionalCall(p.onPressEvent, "onPressEvent", LongPressEventParams(p, h))

_onLongPress(p, h) ==
    OptionalCall(p.onLongPressEvent, "onLongPressEvent", LongPressEventParams(p, h))

_onPress(p, h) ==
    OptionalCall(p.onPressEvent, "onPressEvent", PressEventParams(p, h))

----------------------------------------------------------------------------
(* The animated style *)

\* withTiming(toValue, {duration}): an animation towards toValue
withTiming(toValue, duration) ==
    [kind |-> "timing", toValue |-> toValue, duration |-> duration]

\* a plain number in a style: applied at once
Immediate(value) == [kind |-> "immediate", toValue |-> value]

eventHoursPreviusDays(event) == Max(event.startHour * (-1), 0)

\* mutant: the part of the event after hour 24 is not cut off
eventHoursNextDaysUnclipped(event) == 0

eventHoursNextDays(event) == Max(event.startHour + event.duration - 24, 0)

eventDurationValue(event) ==
    event.duration - eventHoursPreviusDays(event) - eventHoursNextDays(event)

eventStartHour(event) == event.startHour + eventHoursPreviusDays(event)

\* eventStartHourValue after the hotfix line
eventStartHourValue(event, h) == eventStartHour(event) * h + 1

\* mutant: the minimum height is applied before the hotfix subtraction
eventHeightClampFirst(event, theme, h) ==
    LET raw == eventDurationValue(event) * h
    IN  IF TruthyNumber(theme.minimumEventHeight)
        THEN Max(theme.minimumEventHeight[1], raw) - 2
        ELSE raw - 2

\* eventHeight after the hotfix line and the minimum-height clamp
eventHeight(event, theme, h) ==
    LET hotfixed == eventDurationValue(event) * h - 2
    IN  IF TruthyNumber(theme.minimumEventHeight)
        THEN Max(theme.minimumEventHeight[1], hotfixed)
        ELSE hotfixed

\* mutant: the pinch branch forgets the minimum height
PinchStyleNoMinimum(w, h) ==
    [ top    |-> Immediate(eventStartHourValue(w.event, h)),
      height |-> Immediate(eventDurationValue(w.event) * h - 2),
      left   |-> Immediate(w.event.left + w.columnWidth * w.dayIndex),
      width  |-> Immediate(w.event.width) ]

\* the object returned while isPinchActive.value is true
PinchStyle(w, h) ==
    [ top    |-> Immediate(eventStartHourValue(w.event, h)),
      height |-> Immediate(eventHeight(w.event, w.theme, h)),
      left   |-> Immediate(w.event.left + w.columnWidth * w.dayIndex),
      width  |-> Immediate(w.event.width) ]

hasPreviusDay(event) == eventHoursPreviusDays(event) > 0

\* mutant: an event ending exactly at hour 24 counts as continuing
hasNextDayInclusive(event) == event.startHour + event.duration >= 24

hasNextDay(event) == eventHoursNextDays(event) > 0

\* the object returned while isPinchActive.value is false
TimedStyle(w, h) ==
    [ top    |-> withTiming(eventStartHourValue(w.event, h), w.eventAnimatedDuration),
      height |-> withTiming(eventHeight(w.event, w.theme, h), w.eventAnimatedDuration),
      left   |-> withTiming(w.event.left + w.columnWidth * w.dayIndex,
                            w.eventAnimatedDuration),
      width  |-> withTiming(w.event.width, w.eventAnimatedDuration),
      borderTopLeftRadius     |-> IF hasPreviusDay(w.event) THEN 0 ELSE 4,
      borderTopRightRadius    |-> IF hasPreviusDay(w.event) THEN 0 ELSE 4,
      borderBottomLeftRadius  |-> IF hasNextDay(w.event) THEN 0 ELSE 4,
      borderBottomRightRadius |-> IF hasNextDay(w.event) THEN 0 ELSE 4 ]

\* the updater of useAnimatedStyle, run with the values it captured
StyleUpdater(w, h, pinch) ==
    IF pinch THEN PinchStyle(w, h) ELSE TimedStyle(w, h)

\* the values of the component scope the updater closes over
Capture(p) ==
    [ event |-> p.event, columnWidth |-> p.columnWidth, dayIndex |-> p.dayIndex,
      theme |-> p.theme, eventAnimatedDuration |-> p.eventAnimatedDuration ]

\* the dependency list [event] changed between two renders (Object.is)
DepsChanged(prev, next) == prev.eventRef # next.eventRef

----------------------------------------------------------------------------
(* Render and memoisation *)

eventOpacity(p) == IF TruthyString(p.selectedEventId) THEN 50 ELSE 100

\* mutant: the block is disabled only when it is the selected event itself
DisabledOnlyWhenSelected(p) ==
    TruthyString(p.selectedEventId) /\ p.selectedEventId[1] = p.event.id

Disabled(p) == TruthyString(p.selectedEventId)

RenderView(p) == [eventOpacity |-> eventOpacity(p), disabled |-> Disabled(p)]

\* lodash isEqual on the event: deep equality of content, identity ignored
isSameEvent(prev, next) == prev.event = next.event

isSameTheme(prev, next) == prev.theme = next.theme

\* shallowEqual on the remaining props: Object.is on every key
shallowEqual(prev, next) ==
    /\ prev.dayIndex = next.dayIndex
    /\ prev.columnWidth = next.columnWidth
    /\ prev.onPressEvent = next.onPressEvent
    /\ prev.onLongPressEvent = next.onLongPressEvent
    /\ prev.selectedEventId = next.selectedEventId
    /\ prev.eventAnimatedDuration = next.eventAnimatedDuration

areEqual(prev, next) ==
    isSameEvent(prev, next) /\ isSameTheme(prev, next) /\ shallowEqual(prev, next)

----------------------------------------------------------------------------
(* Initial state: the component has just been mounted *)

Init ==
    /\ props \in PropsDomain
    /\ heightByTimeInterval \in Heights
    /\ isPinchActive \in BOOLEAN
    /\ worklet = Capture(props)
    /\ eventStyle = StyleUpdater(Capture(props), heightByTimeInterval, isPinchActive)
    /\ view = RenderView(props)
    /\ lastGesture = "none"
    /\ calls = <<>>
    /\ error = FALSE

----------------------------------------------------------------------------
(* The parent hands down new props *)

\* memo(EventBlock, areEqual): the render is skipped when areEqual holds;
\* otherwise the component function runs again, and the style updater is
\* re-captured and re-run only if the dependency list [event] changed
Rerender(next) ==
    IF areEqual(props, next)
    THEN UNCHANGED vars
    ELSE /\ props' = next
         /\ view' = RenderView(next)
         /\ worklet' = IF DepsChanged(props, next) THEN Capture(next) ELSE worklet
         /\ eventStyle' = IF DepsChanged(props, next)
                          THEN StyleUpdater(Capture(next), heightByTimeInterval,
                                            isPinchActive)
                          ELSE eventStyle
         /\ lastGesture' = "none"
         /\ calls' = <<>>
         /\ error' = FALSE
         /\ UNCHANGED <<heightByTimeInterval, isPinchActive>>

\* a new event object (possibly with the same content as the old one)
SetEvent ==
    \E e \in Events :
        Rerender([props EXCEPT !.event = e, !.eventRef = 1 - props.eventRef])

SetDayIndex ==
    \E d \in DayIndexes : Rerender([props EXCEPT !.dayIndex = d])

SetColumnWidth ==
    \E c \in ColumnWidths : Rerender([props EXCEPT !.columnWidth = c])

SetOnPressEvent ==
    \E f \in Callbacks : Rerender([props EXCEPT !.onPressEvent = f])

SetOnLongPressEvent ==
    \E f \in Callbacks : Rerender([props EXCEPT !.onLongPressEvent = f])

SetSelectedEventId ==
    \E s \in SelectedEventIds : Rerender([props EXCEPT !.selectedEventId = s])

SetTheme ==
    \E t \in Themes : Rerender([props EXCEPT !.theme = t])

----------------------------------------------------------------------------
(* Shared values change on the UI thread: the updater runs with its closure *)

SetHeightByTimeInterval ==
    \E h \in Heights :
        /\ h # heightByTimeInterval
        /\ heightByTimeInterval' = h
        /\ eventStyle' = StyleUpdater(worklet, h, isPinchActive)
        /\ lastGesture' = "none"
        /\ calls' = <<>>
        /\ error' = FALSE
        /\ UNCHANGED <<props, isPinchActive, worklet, view>>

SetPinchActive ==
    /\ isPinchActive' = ~isPinchActive
    /\ eventStyle' = StyleUpdater(worklet, heightByTimeInterval, ~isPinchActive)
    /\ lastGesture' = "none"
    /\ calls' = <<>>
    /\ error' = FALSE
    /\ UNCHANGED <<props, heightByTimeInterval, worklet, view>>

----------------------------------------------------------------------------
(* Gestures on the TouchableOpacity *)

\* what a touchable does with a recognised gesture: nothing when disabled
Dispatch(handlerResult) ==
    IF view.disabled
    THEN [calls |-> <<>>, error |-> FALSE]
    ELSE handlerResult

Press ==
    /\ lastGesture' = "press"
    /\ calls' = Dispatch(_onPress(props, heightByTimeInterval)).calls
    /\ error' = Dispatch(_onPress(props, heightByTimeInterval)).error
    /\ UNCHANGED <<props, heightByTimeInterval, isPinchActive, worklet,
                   eventStyle, view>>

LongPress ==
    /\ lastGesture' = "longPress"
    /\ calls' = Dispatch(_onLongPress(props, heightByTimeInterval)).calls
    /\ error' = Dispatch(_onLongPress(props, heightByTimeInterval)).error
    /\ UNCHANGED <<props, heightByTimeInterval, isPinchActive, worklet,
                   eventStyle, view>>

----------------------------------------------------------------------------

Next ==
    \/ SetEvent
    \/ SetDayIndex
    \/ SetColumnWidth
    \/ SetOnPressEvent
    \/ SetOnLongPressEvent
    \/ SetSelectedEventId
    \/ SetTheme
    \/ SetHeightByTimeInterval
    \/ SetPinchActive
    \/ Press
    \/ LongPress

Spec == Init /\ [][Next]_vars

----------------------------------------------------------------------------
(* Properties *)

\* the payload of the callback the last gesture dispatched
Payload == calls[1].eventParams

PayloadKeys == {"top", "height", "leftByIndex"}

\* C1: a press on an enabled block whose onPressEvent is defined invokes
\* onPressEvent exactly once, with every field of the event unchanged plus
\* top = startHour * h, height = duration * h and leftByIndex = columnWidth *
\* dayIndex, h being the shared value at the moment of the press.
C1_PressPayload ==
    (lastGesture = "press" /\ ~view.disabled /\ props.onPressEvent # Undefined) =>
        /\ Len(calls) = 1
        /\ ~error
        /\ calls[1].callback = "onPressEvent"
        /\ DOMAIN Payload = DOMAIN props.event \cup PayloadKeys
        /\ \A f \in DOMAIN props.event : Payload[f] = props.event[f]
        /\ Payload.top = props.event.startHour * heightByTimeInterval
        /\ Payload.height = props.event.duration * heightByTimeInterval
        /\ Payload.leftByIndex = props.columnWidth * props.dayIndex

\* a press was dispatched for an event that started the day before, in a column
\* other than the first, after the column width changed under the same event
C1_Witness ==
    /\ lastGesture = "press"
    /\ Len(calls) = 1
    /\ props.event.startHour < 0
    /\ props.dayIndex > 0
    /\ worklet.columnWidth # props.columnWidth

\* C2: a long press dispatches onLongPressEvent and never onPressEvent, a
\* press dispatches onPressEvent and never onLongPressEvent, and the payload
\* of a long press equals the payload a press hands over in the same state.
C2_LongPressMirrorsPress ==
    /\ lastGesture = "longPress" =>
          /\ \A i \in 1 .. Len(calls) :
                /\ calls[i].callback = "onLongPressEvent"
                /\ calls[i].eventParams = PressEventParams(props, heightByTimeInterval)
          /\ (~view.disabled /\ props.onLongPressEvent # Undefined) => Len(calls) = 1
    /\ lastGesture = "press" =>
          \A i \in 1 .. Len(calls) : calls[i].callback = "onPressEvent"

\* a long press was dispatched while onPressEvent is defined too
C2_Witness ==
    /\ lastGesture = "longPress"
    /\ Len(calls) = 1
    /\ props.onPressEvent # Undefined
    /\ props.dayIndex > 0

\* C3: a press with onPressEvent undefined, and a long press with
\* onLongPressEvent undefined, dispatches nothing, raises no error and leaves
\* the props, both shared values and the rendered style and view unchanged.
C3_UndefinedCallbackNoOp ==
    [][ ( \/ lastGesture' = "press" /\ props.onPressEvent = Undefined
          \/ lastGesture' = "longPress" /\ props.onLongPressEvent = Undefined )
        => /\ calls' = <<>>
           /\ error' = FALSE
           /\ UNCHANGED <<props, heightByTimeInterval, isPinchActive, worklet,
                          eventStyle, view>> ]_vars

\* an enabled block was pressed while onPressEvent is undefined
C3_Witness ==
    /\ lastGesture = "press"
    /\ ~view.disabled
    /\ props.onPressEvent = Undefined
    /\ props.onLongPressEvent # Undefined

\* the height the clipped event would get without a minimum height
ClippedHeight ==
    eventDurationValue(worklet.event) * heightByTimeInterval - 2

\* the minimum height raises the height the updater computes
MinimumApplies ==
    /\ TruthyNumber(worklet.theme.minimumEventHeight)
    /\ worklet.theme.minimumEventHeight[1] > ClippedHeight

\* C4 as stated: the rectangle lies within the day column, top >= 0 and
\* top + height <= 24 * h, also when theme.minimumEventHeight is set.
C4_Original ==
    /\ eventStyle.top.toValue >= 0
    /\ eventStyle.top.toValue + eventStyle.height.toValue
           <= 24 * heightByTimeInterval

\* C4 amended: top >= 0 always; top + height <= 24 * h whenever the minimum
\* height does not raise the height; when it does, the height is the minimum
\* height and the rectangle may reach below the day column.
C4_WithinDayUnlessMinimum ==
    /\ eventStyle.top.toValue >= 0
    /\ ~MinimumApplies =>
          eventStyle.top.toValue + eventStyle.height.toValue
              <= 24 * heightByTimeInterval
    /\ MinimumApplies =>
          eventStyle.height.toValue = worklet.theme.minimumEventHeight[1]

\* after a re-render under the same event object, an event running into the
\* next day, with a minimum height set that does not apply, ends one pixel
\* above the bottom of the day column
C4_Witness ==
    /\ hasNextDay(worklet.event)
    /\ TruthyNumber(worklet.theme.minimumEventHeight)
    /\ ~MinimumApplies
    /\ eventStyle.top.toValue + eventStyle.height.toValue
           = 24 * heightByTimeInterval - 1
    /\ worklet.theme = props.theme
    /\ worklet.columnWidth # props.columnWidth

RadiusKeys ==
    {"borderTopLeftRadius", "borderTopRightRadius",
     "borderBottomLeftRadius", "borderBottomRightRadius"}

\* C7: while isPinchActive is false the top radii are 0 iff startHour < 0 and
\* 4 otherwise, the bottom radii are 0 iff startHour + duration > 24 and 4
\* otherwise, each pair being equal; while isPinchActive is true the style
\* has no corner-radius key.
C7_CornerRadii ==
    IF isPinchActive
    THEN DOMAIN eventStyle \cap RadiusKeys = {}
    ELSE /\ RadiusKeys \subseteq DOMAIN eventStyle
         /\ eventStyle.borderTopLeftRadius =
               (IF props.event.startHour < 0 THEN 0 ELSE 4)
         /\ eventStyle.borderTopRightRadius = eventStyle.borderTopLeftRadius
         /\ eventStyle.borderBottomLeftRadius =
               (IF props.event.startHour + props.event.duration > 24 THEN 0 ELSE 4)
         /\ eventStyle.borderBottomRightRadius = eventStyle.borderBottomLeftRadius

\* the style of an event ending exactly at hour 24 was computed without
\* pinch, and the block was re-rendered in another column since
C7_Witness ==
    /\ ~isPinchActive
    /\ props.event.startHour + props.event.duration = 24
    /\ eventStyle.borderBottomLeftRadius = 4
    /\ eventStyle.borderTopLeftRadius = 4
    /\ worklet.dayIndex # props.dayIndex

Geometry == {"top", "height", "left", "width"}

\* C8: the values applied at once while isPinchActive is true equal the
\* targets of the timed animations (of duration eventAnimatedDuration)
\* produced while it is false: in every state the rectangle the style heads
\* for is the one the other branch yields for the same inputs.
C8_PinchSameGeometry ==
    LET timed == TimedStyle(worklet, heightByTimeInterval)
        pinched == PinchStyle(worklet, heightByTimeInterval)
    IN  /\ isPinchActive =>
              \A k \in Geometry :
                  /\ eventStyle[k].kind = "immediate"
                  /\ eventStyle[k].toValue = timed[k].toValue
        /\ ~isPinchActive =>
              \A k \in Geometry :
                  /\ eventStyle[k].kind = "timing"
                  /\ eventStyle[k].duration = worklet.eventAnimatedDuration
                  /\ eventStyle[k].toValue = pinched[k].toValue

\* the style was computed during a pinch, at a zoom level other than the
\* smallest, for an event whose height the minimum height raises, after a
\* re-render that moved the block to another column
C8_Witness ==
    /\ isPinchActive
    /\ MinimumApplies
    /\ \E z \in Heights : z < heightByTimeInterval
    /\ worklet.dayIndex # props.dayIndex

\* C9: after any sequence of prop updates and shared-value changes the
\* rendered geometry agrees with the current props: the left target minus
\* event.left is columnWidth * dayIndex as a press reports it, and the height
\* honours the current theme.minimumEventHeight.
C9_RenderedAgreesWithProps ==
    /\ eventStyle.left.toValue - props.event.left
           = PressEventParams(props, heightByTimeInterval).leftByIndex
    /\ eventStyle.height.toValue
           = eventHeight(props.event, props.theme, heightByTimeInterval)

====
